---- MODULE Spec2Model ----
(***************************************************************************)
(* A model of the single-audit "distiller" views                           *)
(* (src/single-audit/distiller/views.py): the Selenium workflow            *)
(* download_files_from_fac with its helpers, and the agency summary view.  *)
(*                                                                         *)
(* The remote portal, the browser and the dataset file are external; what  *)
(* they answer is fixed per behaviour in the variable `world`, so that the *)
(* code of the views is the only thing that decides what happens next.     *)
(***************************************************************************)
EXTENDS Integers, Sequences, FiniteSets, TLC

(* ------------------------------ bounds --------------------------------- *)
\* Largest number of result pages the simulated portal serves.
MaxPages == 3
\* Largest number of entries tracked in the browser's download list.
MaxItems == 2
\* How many days after the module was loaded a request may arrive.
MaxDayOffset == 1

(* ------------------------- program constants --------------------------- *)
\* views.py:250  max_number_of_search_results = 25
max_number_of_search_results == 25
\* views.py:396  WebDriverWait(driver, 500, 1): timeout
WAIT_TIMEOUT == 500
\* views.py:396  WebDriverWait(driver, 500, 1): poll frequency
POLL_FREQUENCY == 1
\* views.py:312  _calculate_start_date(90)
FROM_DATE_DIFFERENCE == 90

\* views.py:28, 29 (strings are modelled as sequences of characters)
DEPT_OF_TRANSPORTATION_PREFIX == <<"2", "0">>
FTA_SUBAGENCY_CODE == <<"5">>

\* The module-level names that views.py binds at import time (lines 1-33).
ModuleGlobals ==
    {"DIRECTORY_NAME", "FILES_DIRECTORY", "CHROME_DRIVER_LOCATION", "FAC_URL",
     "DEPT_OF_TRANSPORTATION_PREFIX", "FTA_SUBAGENCY_CODE"}

(* ------------------------------ dates ---------------------------------- *)
\* Dates are proleptic Gregorian ordinals, as date.toordinal() gives them;
\* date - timedelta(n) is the ordinal minus n.

Digits == <<"0", "1", "2", "3", "4", "5", "6", "7", "8", "9">>
Digit(n) == Digits[n + 1]
TwoDigits(n) == <<Digit((n \div 10) % 10), Digit(n % 10)>>
FourDigits(n) == <<Digit((n \div 1000) % 10), Digit((n \div 100) % 10),
                   Digit((n \div 10) % 10), Digit(n % 10)>>

DaysInMonthTable == <<31, 28, 31, 30, 31, 30, 31, 31, 30, 31, 30, 31>>
DaysBeforeMonthTable == <<0, 31, 59, 90, 120, 151, 181, 212, 243, 273, 304, 334>>

\* datetime._ord2ymd: ordinal -> [year, month, day]
Ord2Ymd(ordinal) ==
    LET n0   == ordinal - 1
        n400 == n0 \div 146097
        r400 == n0 % 146097
        n100 == r400 \div 36524
        r100 == r400 % 36524
        n4   == r100 \div 1461
        r4   == r100 % 1461
        n1   == r4 \div 365
        n    == r4 % 365
        year == n400 * 400 + 1 + n100 * 100 + n4 * 4 + n1
        leap == n1 = 3 /\ (n4 # 24 \/ n100 = 3)
        lp(m) == IF m > 2 /\ leap THEN 1 ELSE 0
        m0   == (n + 50) \div 32
        pre0 == DaysBeforeMonthTable[m0] + lp(m0)
        month == IF pre0 > n THEN m0 - 1 ELSE m0
        pre  == IF pre0 > n
                THEN pre0 - (DaysInMonthTable[month]
                             + (IF month = 2 /\ leap THEN 1 ELSE 0))
                ELSE pre0
    IN  IF n1 = 4 \/ n100 = 4
        THEN [year |-> year - 1, month |-> 12, day |-> 31]
        ELSE [year |-> year, month |-> month, day |-> n - pre + 1]

\* views.py:53-65  date.strftime("%m/%d/%Y")
format_date_for_fac_fields(d) ==
    LET ymd == Ord2Ymd(d)
    IN  TwoDigits(ymd.month) \o <<"/">> \o TwoDigits(ymd.day) \o <<"/">>
        \o FourDigits(ymd.year)

\* views.py:36-50.  The default of end_date is date.today() evaluated once,
\* when the def statement runs at import; the caller passes that value in.
calculate_start_date(time_difference, end_date) ==
    format_date_for_fac_fields(end_date - time_difference)

\* The day the module was imported: 2020-03-30 (90 days earlier: 2019-12-31,
\* so that the range crosses a year boundary and a leap day).
FirstDay == 737000 + 514
Days == FirstDay .. (FirstDay + MaxDayOffset)

(* ------------------------ values and exceptions ------------------------ *)
\* A Python value passed as agency_prefix: its type and, for a str or an int,
\* its characters.
ArgNone == [type |-> "NoneType", val |-> <<>>]
ArgStr(chars) == [type |-> "str", val |-> chars]
ArgInt(chars) == [type |-> "int", val |-> chars]

NoException == "none"

\* spec.md section 8: "the required 2-character numeric pattern"
MatchesAgencyPattern(chars) ==
    /\ Len(chars) = 2
    /\ \A i \in 1..Len(chars) : \E n \in 0..9 : chars[i] = Digit(n)

(* ------------------------------ the portal ----------------------------- *)
\* The steps of the form with the continue button clicked before the
\* acknowledgement checkbox.
FormStepsContinueFirst ==
    << [el |-> "ui-id-1",               op |-> "click"],
       [el |-> "FromDate",              op |-> "from_date"],
       [el |-> "ToDate",                op |-> "to_date"],
       [el |-> "ui-id-5",               op |-> "click"],
       [el |-> "SelectionControlTable", op |-> "find"],
       [el |-> "cfdaPrefix",            op |-> "select"],
       [el |-> "cfdaExt",               op |-> "type_ext"],
       [el |-> "cfdaContains",          op |-> "click"],
       [el |-> "btnAdd",                op |-> "click"],
       [el |-> "Panel4",                op |-> "find"],
       [el |-> "btnSearch_bottom",      op |-> "search"],
       [el |-> "btnIAgree",             op |-> "continue"],
       [el |-> "chkAgree",              op |-> "agree"] >>

\* Element identifiers that download_files_from_fac looks up, in the order of
\* views.py:306-366 (the long MainContent_... prefixes are dropped).
FormSteps ==
    << [el |-> "ui-id-1",               op |-> "click"],      \* 306
       [el |-> "FromDate",              op |-> "from_date"],  \* 310-315
       [el |-> "ToDate",                op |-> "to_date"],    \* 319-324
       [el |-> "ui-id-5",               op |-> "click"],      \* 328
       [el |-> "SelectionControlTable", op |-> "find"],       \* 331
       [el |-> "cfdaPrefix",            op |-> "select"],     \* 332-335
       [el |-> "cfdaExt",               op |-> "type_ext"],   \* 338-340
       [el |-> "cfdaContains",          op |-> "click"],      \* 346
       [el |-> "btnAdd",                op |-> "click"],      \* 349
       [el |-> "Panel4",                op |-> "find"],       \* 352
       [el |-> "btnSearch_bottom",      op |-> "search"],     \* 353
       [el |-> "chkAgree",              op |-> "agree"],      \* 359
       [el |-> "btnIAgree",             op |-> "continue"] >> \* 366

ElementIds == {FormSteps[i].el : i \in 1..Len(FormSteps)}

\* The values of the options of the portal's cfdaPrefix select.
PortalOptions == {<<"1", "0">>, <<"2", "0">>, <<"9", "3">>}

Slots == 0 .. (max_number_of_search_results - 1)
Categories == {"Form", "Audit"}

\* views.py:243-248: file_type -> name_suffix ("" when the function returns
\* False without looking anything up)
name_suffix(file_type) ==
    IF file_type = "SF-SAC" THEN "Form"
    ELSE IF file_type = "PDF" THEN "Audit"
    ELSE ""

(* --------------------------- result paging ----------------------------- *)
\* The labels of the links in the tr.GridPager row of result page `page`
\* (the current page is not a link); no row at all on a single page unless
\* the portal renders one anyway.
HasPagerRow(w) == w.K > 1 \/ w.pagerOnSingle
PagerLinks(w, page) == IF HasPagerRow(w) THEN (1..w.K) \ {page} ELSE {}

\* views.py:137: driver.find_element_by_css_selector('tr.GridPager')
find_pager(w) ==
    IF HasPagerRow(w)
    THEN [raised |-> FALSE, exc |-> NoException]
    ELSE [raised |-> TRUE, exc |-> "NoSuchElementException"]

\* views.py:148: pager.find_element_by_link_text(str(page_index + 1)), with
\* `pager` bound or not; the link is named by its label.
find_next_link(w, pagerBound, page, page_index) ==
    IF ~pagerBound
    THEN [raised |-> TRUE, exc |-> "UnboundLocalError", link |-> 0]
    ELSE IF (page_index + 1) \in PagerLinks(w, page)
    THEN [raised |-> FALSE, exc |-> NoException, link |-> page_index + 1]
    ELSE [raised |-> TRUE, exc |-> "NoSuchElementException", link |-> 0]

\* get_next_pager_link looking for str(page_index) instead of
\* str(page_index + 1).
get_next_pager_link_same_label(w, page, page_index) ==
    LET found == HasPagerRow(w) /\ page_index \in PagerLinks(w, page)
    IN  [raised |-> FALSE, exc |-> NoException,
         link |-> IF found THEN page_index ELSE 0]

\* get_next_pager_link with handlers that raise the Exception they build
\* (`raise Exception(...)` at lines 143 and 150).
get_next_pager_link_reraising(w, page, page_index) ==
    LET first  == find_pager(w)
        second == find_next_link(w, ~first.raised, page, page_index)
    IN  IF first.raised \/ second.raised
        THEN [raised |-> TRUE, exc |-> "Exception", link |-> 0]
        ELSE [raised |-> FALSE, exc |-> NoException, link |-> second.link]

\* views.py:108-153.  0 stands for False (line 134).  Both lookups sit in
\* try blocks with a bare except whose handler builds an Exception object and
\* drops it (143, 150), so whatever a lookup raises ends there: with no pager
\* row `pager` stays unbound, line 148 raises UnboundLocalError, and that is
\* dropped like the NoSuchElementException of a missing link.
get_next_pager_link(w, page, page_index) ==
    LET first  == find_pager(w)                               \* 136-143
        second == find_next_link(w, ~first.raised, page, page_index)
    IN  [raised |-> FALSE,
         exc    |-> NoException,
         link   |-> IF second.raised THEN 0 ELSE second.link] \* 145-153

(* ------------------------- linked-file downloads ----------------------- *)
NoLink == 0 - 1
\* Click counts per slot: the count of slot s is kept at index s + 1.
NoClicks == [i \in 1..max_number_of_search_results |-> 0]
ClicksOn(counts, s) == counts[s + 1]
\* The same counts as the set of <<slot, clicks>> of the slots clicked.
Clicked(counts) ==
    {<<s, ClicksOn(counts, s)>> : s \in {t \in Slots : ClicksOn(counts, t) > 0}}
ClicksIn(pairs, s) ==
    IF \E p \in pairs : p[1] = s
    THEN (CHOOSE p \in pairs : p[1] = s)[2]
    ELSE 0

\* views.py:251-260, iterations i .. 24 of the for loop.  `link` is the value
\* of download_link (NoLink while the name is unbound), `clicks` counts the
\* clicks made on each slot's link, `failAt` is the iteration whose click()
\* raises in the browser (max_number_of_search_results when none does).
\* A failed find_element_by_id is swallowed (257-258) and line 260 runs
\* with whatever download_link holds.
RECURSIVE ClickLoop(_, _, _, _, _)
ClickLoop(i, link, clicks, present, failAt) ==
    IF i >= max_number_of_search_results
    THEN [raised |-> FALSE, exc |-> NoException, clicks |-> clicks,
          returned |-> TRUE]                                   \* 263
    ELSE LET link2 == IF i \in present THEN i ELSE link        \* 255-258
         IN  IF link2 = NoLink
             THEN [raised |-> TRUE, exc |-> "UnboundLocalError",
                   clicks |-> clicks, returned |-> FALSE]      \* 260
             ELSE IF i = failAt
             THEN [raised |-> TRUE, exc |-> "WebDriverException",
                   clicks |-> clicks, returned |-> FALSE]      \* 260
             ELSE ClickLoop(i + 1, link2,
                            [clicks EXCEPT ![link2 + 1] = @ + 1],
                            present, failAt)

\* views.py:193-263
download_one_set_of_result_files(pageSlots, fail, file_type) ==
    IF name_suffix(file_type) = ""
    THEN [raised |-> FALSE, exc |-> NoException, clicks |-> NoClicks,
          returned |-> FALSE]                                  \* 248
    ELSE ClickLoop(0, NoLink, NoClicks,
                   pageSlots[name_suffix(file_type)],
                   fail[name_suffix(file_type)])

\* download_all_linked_files without the first try/except: what the
\* SF-SAC call raises propagates and the PDF call is not reached.
download_all_linked_files_propagating(pageSlots, fail) ==
    LET form  == download_one_set_of_result_files(pageSlots, fail, "SF-SAC")
        audit == download_one_set_of_result_files(pageSlots, fail, "PDF")
    IN  IF form.raised
        THEN [raised    |-> TRUE,
              attempted |-> <<"SF-SAC">>,
              swallowed |-> [Form |-> form.exc, Audit |-> NoException],
              clicks    |-> [Form |-> form.clicks, Audit |-> NoClicks]]
        ELSE [raised    |-> FALSE,
              attempted |-> <<"SF-SAC", "PDF">>,
              swallowed |-> [Form |-> form.exc, Audit |-> audit.exc],
              clicks    |-> [Form |-> form.clicks, Audit |-> audit.clicks]]

\* views.py:156-190.  Each call sits in its own try with a bare except whose
\* handler builds an Exception and drops it, so nothing propagates.
download_all_linked_files(pageSlots, fail) ==
    LET form  == download_one_set_of_result_files(pageSlots, fail, "SF-SAC")
        audit == download_one_set_of_result_files(pageSlots, fail, "PDF")
    IN  [raised    |-> FALSE,
         attempted |-> <<"SF-SAC", "PDF">>,
         swallowed |-> [Form |-> form.exc, Audit |-> audit.exc],
         clicks    |-> [Form |-> form.clicks, Audit |-> audit.clicks]]

RECURSIVE SumUpTo(_, _)
SumUpTo(counts, n) == IF n < 1 THEN 0 ELSE counts[n] + SumUpTo(counts, n - 1)
TotalClicks(c) ==
    SumUpTo(c.Form, max_number_of_search_results)
    + SumUpTo(c.Audit, max_number_of_search_results)

(* ---------------------- the browser's download list -------------------- *)
\* list_completed_chrome_downloads with items.some in place of items.every.
list_completed_chrome_downloads_some(its) ==
    IF \E i \in 1..Len(its) : its[i].state = "COMPLETE"
    THEN [none |-> FALSE, list |-> [i \in 1..Len(its) |-> its[i].fileUrl]]
    ELSE [none |-> TRUE, list |-> <<>>]

\* views.py:101-105, the script run in the page: every item COMPLETE gives
\* the list of file URLs (the empty list for no items), anything else gives
\* undefined, which Selenium hands back as None.
list_completed_chrome_downloads(its) ==
    IF \A i \in 1..Len(its) : its[i].state = "COMPLETE"
    THEN [none |-> FALSE, list |-> [i \in 1..Len(its) |-> its[i].fileUrl]]
    ELSE [none |-> TRUE, list |-> <<>>]

\* A truth test that only asks for a value other than None.
Truthy_is_not_none(v) == ~v.none

\* Python truth of a value that is None or a list.
Truthy(v) == ~v.none /\ v.list # <<>>

PyNone == [none |-> TRUE, list |-> <<>>]

(* ------------------------- the agency summary -------------------------- *)
\* pandas.read_csv (views.py:464): a column whose cells are all numerals is
\* read as integers, any other column as strings.
IsNumeral(chars) ==
    Len(chars) > 0 /\ \A i \in 1..Len(chars) : \E n \in 0..9 : chars[i] = Digit(n)
read_csv(table) ==
    LET numeric == \A i \in 1..Len(table) : IsNumeral(table[i].COGAGENCY)
    IN  [i \in 1..Len(table) |->
            [COGAGENCY  |-> [type |-> IF numeric THEN "int" ELSE "str",
                             val  |-> table[i].COGAGENCY],
             CYFINDINGS |-> table[i].CYFINDINGS]]

\* views.py:460-468.  Line 461 reads the global files_directory; the module
\* binds FILES_DIRECTORY (line 23), and Python names are case-sensitive.
filter_general_table_by_agency(table, agency_prefix) ==
    LET Matches(row) == row.COGAGENCY.type = "str"
                        /\ row.COGAGENCY.val = agency_prefix    \* 466
    IN  IF "files_directory" \notin ModuleGlobals
        THEN [raised |-> TRUE, exc |-> "NameError", reads |-> 0,
              rows |-> <<>>]                                      \* 461
        ELSE [raised |-> FALSE, exc |-> NoException, reads |-> 1,
              rows |-> SelectSeq(read_csv(table), Matches)]       \* 464-468

\* views.py:421-457
get_number_of_findings(agency_df) ==
    LET Flagged(row) == row.CYFINDINGS = "Y"
    IN  Len(SelectSeq(agency_df, Flagged))

NoResults == [cognizant_sum |-> 0 - 1, findings |-> 0 - 1]

\* views.py:494-508 (agency_name comes from forms.py and is left out)
derive_agency_highlights(table, agency_prefix) ==
    LET df == filter_general_table_by_agency(table, agency_prefix)
    IN  IF df.raised
        THEN [raised |-> TRUE, exc |-> df.exc, reads |-> df.reads,
              results |-> NoResults]
        ELSE [raised |-> FALSE, exc |-> NoException, reads |-> df.reads,
              results |-> [cognizant_sum |-> Len(df.rows),
                           findings |-> get_number_of_findings(df.rows)]]

\* forms.py is not among the sources: the validator is modelled from
\* spec.md (section 7, InvalidAgencyCode; section 8, first property).  Whether
\* it signals an invalid prefix by raising or by returning False is the
\* world's choice.
is_valid_agency_prefix(w, agency_prefix) ==
    [raised |-> w.validatorRaises /\ ~MatchesAgencyPattern(agency_prefix),
     value  |-> MatchesAgencyPattern(agency_prefix)]

NoSummary ==
    [called |-> FALSE, agency |-> <<>>, validated |-> FALSE, reads |-> 0,
     rendered |-> FALSE, exc |-> NoException, results |-> NoResults]

\* views.py:511-520.  The result of the validator is not looked at; anything
\* raised inside the try is swallowed and the view returns None.
show_agency_level_summary(w, agency_prefix) ==
    LET v == is_valid_agency_prefix(w, agency_prefix)             \* 514
        h == derive_agency_highlights(w.table, agency_prefix)     \* 515
    IN  IF v.raised
        THEN [called |-> TRUE, agency |-> agency_prefix, validated |-> TRUE,
              reads |-> 0, rendered |-> FALSE, exc |-> "ValidationError",
              results |-> NoResults]
        ELSE [called |-> TRUE, agency |-> agency_prefix, validated |-> TRUE,
              reads |-> h.reads, rendered |-> ~h.raised, exc |-> h.exc,
              results |-> h.results]                              \* 517-520

(* --------------------- WebDriverWait(driver, 500, 1) ------------------- *)
\* A wait that, out of time, returns the falsy value instead of raising.
until_gives_up_quietly(value, elapsed) ==
    IF Truthy(value) \/ elapsed + POLL_FREQUENCY >= WAIT_TIMEOUT
    THEN [outcome |-> "return", elapsed |-> elapsed]
    ELSE [outcome |-> "again", elapsed |-> elapsed + POLL_FREQUENCY]

\* selenium's WebDriverWait.until, one turn of its loop: call the method; a
\* truthy value is returned at once; otherwise sleep one poll interval and
\* give up with TimeoutException once the clock has passed the end time.
\* `elapsed` counts the poll intervals slept so far; every turn also takes
\* some time of its own, so after 500 sleeps of 1 the clock is past the end.
until(value, elapsed) ==
    IF Truthy(value)
    THEN [outcome |-> "return", elapsed |-> elapsed]
    ELSE IF elapsed + POLL_FREQUENCY >= WAIT_TIMEOUT
         THEN [outcome |-> "TimeoutException",
               elapsed |-> elapsed + POLL_FREQUENCY]
         ELSE [outcome |-> "again", elapsed |-> elapsed + POLL_FREQUENCY]

\* views.py:290-291
normalize_agency_prefix(a) ==
    IF a.type = "NoneType" \/ a.type # "str"
    THEN DEPT_OF_TRANSPORTATION_PREFIX
    ELSE a.val

\* views.py:398-399: the session is closed when paths is truthy
quits_session(p) == Truthy(p)

(* ------------------------- the Grant model ----------------------------- *)
\* str(number) of a python int: a minus sign for a negative number, then the
\* decimal digits of its magnitude without leading zeros
RECURSIVE DecimalDigits(_)
DecimalDigits(n) ==
    IF n < 10 THEN <<Digit(n)>>
    ELSE Append(DecimalDigits(n \div 10), Digit(n % 10))
str(number) ==
    IF number < 0 THEN <<"-">> \o DecimalDigits(0 - number)
    ELSE DecimalDigits(number)

\* models.py:8-14
validate_cfda_number(number) ==
    IF Len(str(number)) # 5
    THEN [raised |-> TRUE, exc |-> "ValidationError"]
    ELSE [raised |-> FALSE, exc |-> NoException]

NoGrant == [made |-> FALSE, cfda |-> 0, cleaned |-> FALSE,
            error |-> NoException]

\* The integers Grant.cfda is validated on: the numbers within CfdaSpread of
\* 10^k for k up to CfdaMagnitudes, with either sign, and the two ends of
\* the range a 32-bit IntegerField column holds (its lowest value taken one
\* above -2^31, whose magnitude has the same ten digits).
CfdaSpread == 2
CfdaMagnitudes == 6
RECURSIVE Pow10(_)
Pow10(k) == IF k = 0 THEN 1 ELSE 10 * Pow10(k - 1)
CfdaNumbers ==
    { sgn * (Pow10(k) + d) :
        sgn \in {0 - 1, 1}, k \in 0..CfdaMagnitudes,
        d \in (0 - CfdaSpread)..CfdaSpread }
    \cup {2147483647, 0 - 2147483647}

(* ------------------------------- state --------------------------------- *)
VARIABLES
    world,                  \* what the portal, the browser and the file hold
    loadDay,                \* the day views.py was imported
    today,                  \* date.today() while the request runs
    arg,                    \* the agency_prefix argument of the request
    pc,                     \* where download_files_from_fac stands
    step,                   \* index into FormSteps while pc = "form"
    agency_prefix,          \* the local variable after lines 290-291
    session,                \* "none", "open" or "closed": the Chrome session
    current_url,            \* driver.current_url
    typed,                  \* what has been entered into the search form
    page,                   \* the result page the browser shows (0: none)
    current_page_index,     \* the local variable (0: not yet assigned)
    link_to_next_page,      \* the local variable (0: False)
    lastCall,               \* the last download_all_linked_files call
    downloadAllCalls,       \* calls of download_all_linked_files so far
    downloadedPages,        \* the pages those calls were made on, in order
    pagerClicks,            \* clicks on a next-page link so far
    log,                    \* the browser operations of interest, in order
    items,                  \* the browser's download list
    polls,                  \* calls of list_completed_chrome_downloads
    elapsed,                \* poll intervals slept inside the wait
    paths,                  \* the local variable paths
    response,               \* the HttpResponse returned ("" while none)
    exception,              \* the exception that ended the request
    summary,                \* the outcome of show_agency_level_summary
    grant                   \* a Grant whose cfda field is being validated

vars == <<world, loadDay, today, arg, pc, step, agency_prefix, session,
          current_url, typed, page, current_page_index, link_to_next_page,
          lastCall, downloadAllCalls, downloadedPages, pagerClicks, log,
          items, polls, elapsed, paths, response, exception, summary,
          grant>>

NoTyped == [from |-> <<>>, to |-> <<>>, prefix |-> <<>>, ext |-> <<>>]
NoCall == [made |-> FALSE, page |-> 0, attempted |-> <<>>,
           swallowed |-> [Form |-> NoException, Audit |-> NoException],
           clicks |-> [Form |-> {}, Audit |-> {}]]

(* ------------------------------ worlds --------------------------------- *)
Prefix(n) == 0 .. (n - 1)

\* spec.md section 8: a 10-row table, 3 rows of agency "20", 2 of them flagged.
Row(agency, flag) == [COGAGENCY |-> agency, CYFINDINGS |-> flag]
SpecTable ==
    << Row(<<"2", "0">>, "Y"), Row(<<"9", "3">>, "N"), Row(<<"2", "0">>, "N"),
       Row(<<"1", "0">>, "Y"), Row(<<"9", "3">>, "Y"), Row(<<"2", "0">>, "Y"),
       Row(<<"1", "0">>, "N"), Row(<<"9", "3">>, "N"), Row(<<"1", "0">>, "N"),
       Row(<<"9", "3">>, "Y") >>

SmallTable ==
    << Row(<<"2", "0">>, "Y"), Row(<<"9", "3">>, "Y"), Row(<<"2", "0">>, "N") >>
MixedTable ==
    << Row(<<"2", "0">>, "Y"), Row(<<"n", "/", "a">>, "N") >>

NeverFails == [Form |-> max_number_of_search_results,
               Audit |-> max_number_of_search_results]

BaseWorld ==
    [chromedriver    |-> TRUE,       \* the chromedriver binary can be started
     missing         |-> {},         \* form elements the portal does not serve
     K               |-> 1,          \* number of result pages
     pagerOnSingle   |-> FALSE,      \* a pager row even on a single page
     slots           |-> [Form |-> Prefix(5), Audit |-> Prefix(5)],
     clickFail       |-> NeverFails, \* loop iteration whose click() raises
     validatorRaises |-> TRUE,
     table           |-> SmallTable]

\* The link slots present on a result page, per category (every page of a
\* world shows the same pattern).
SlotSets ==
    { {}, {0}, {1}, {0, 2}, {1, 3}, Prefix(5),
      Slots, Slots \ {7} }
MainPatterns ==
    { [Form |-> Prefix(5), Audit |-> Prefix(5)],
      [Form |-> {},        Audit |-> {}],
      [Form |-> {0, 2},    Audit |-> {1}] }

Args ==
    { ArgNone, ArgInt(<<"2", "0">>), ArgStr(<<"2", "0">>), ArgStr(<<"9", "3">>),
      ArgStr(<<"9", "9">>), ArgStr(<<"a", "b">>), ArgStr(<<"2">>),
      ArgStr(<<"2", "0", "0">>), ArgStr(<<>>) }

Scenario(w, a, t) == [world |-> w, arg |-> a, today |-> t]

PagerScenarios ==
    { Scenario([BaseWorld EXCEPT !.K = k, !.pagerOnSingle = b, !.slots = s],
               ArgStr(<<"2", "0">>), FirstDay) :
        k \in 1..MaxPages, b \in BOOLEAN, s \in MainPatterns }
FailureScenarios ==
    { Scenario([BaseWorld EXCEPT !.missing = {e}], ArgNone, FirstDay) :
        e \in ElementIds }
    \cup { Scenario([BaseWorld EXCEPT !.chromedriver = FALSE], ArgNone, FirstDay) }
    \cup { Scenario([BaseWorld EXCEPT !.clickFail = [Form |-> f, Audit |-> g]],
                    ArgNone, FirstDay) : f \in {0, 3}, g \in {2, 24} }
ArgScenarios ==
    { Scenario([BaseWorld EXCEPT !.validatorRaises = v], a, t) :
        v \in BOOLEAN, a \in Args, t \in Days }
TableScenarios ==
    { Scenario([BaseWorld EXCEPT !.table = t], ArgStr(a), FirstDay) :
        t \in {SpecTable, MixedTable, <<>>},
        a \in {<<"2", "0">>, <<"9", "9">>} }
Scenarios ==
    { sc \in PagerScenarios : sc.world.K = 1 \/ ~sc.world.pagerOnSingle }
    \cup FailureScenarios \cup ArgScenarios \cup TableScenarios

(* ------------------------------- Init ---------------------------------- *)
ViewsIdle(sc) ==
    /\ world = sc.world
    /\ loadDay = FirstDay
    /\ today = sc.today
    /\ arg = sc.arg
    /\ pc = "idle"
    /\ step = 0
    /\ agency_prefix = <<>>
    /\ session = "none"
    /\ current_url = "none"
    /\ typed = NoTyped
    /\ page = 0
    /\ current_page_index = 0
    /\ link_to_next_page = 0
    /\ lastCall = NoCall
    /\ downloadAllCalls = 0
    /\ downloadedPages = <<>>
    /\ pagerClicks = 0
    /\ log = <<>>
    /\ items = <<>>
    /\ polls = 0
    /\ elapsed = 0
    /\ paths = PyNone
    /\ response = ""
    /\ exception = NoException
    /\ summary = NoSummary

InitWith(sc) ==
    /\ ViewsIdle(sc)
    /\ grant = NoGrant

Init == \E sc \in Scenarios : InitWith(sc)

(* ------------------------------ actions -------------------------------- *)
Raise(exc) ==
    /\ pc' = "failed"
    /\ exception' = exc

\* views.py:289-302: defaults, check_for_chromedriver (prints at most),
\* webdriver.Chrome(...), driver.get(FAC_URL)
Request ==
    /\ pc = "idle"
    /\ agency_prefix' = normalize_agency_prefix(arg)
    /\ IF world.chromedriver
       THEN /\ session' = "open"
            /\ current_url' = "FAC_URL"
            /\ log' = <<"Chrome", "get">>
            /\ pc' = "form"
            /\ step' = 1
            /\ UNCHANGED exception
       ELSE /\ Raise("WebDriverException")
            /\ UNCHANGED <<session, current_url, log, step>>
    /\ UNCHANGED <<world, loadDay, today, arg, typed, page,
                   current_page_index, link_to_next_page, lastCall,
                   downloadAllCalls, downloadedPages, pagerClicks, items,
                   polls, elapsed, paths, response, summary,
                   grant>>

\* What step `st` of views.py:306-366 enters into the form.
FormEffect(st, day0, day, prefix) ==
    IF st.op = "from_date"
    THEN [typed EXCEPT !.from =
              calculate_start_date(FROM_DATE_DIFFERENCE, day0)]   \* 312-314
    ELSE IF st.op = "to_date"
    THEN [typed EXCEPT !.to = format_date_for_fac_fields(day - 1)] \* 319-323
    ELSE IF st.op = "select"
    THEN [typed EXCEPT !.prefix = prefix]                         \* 335
    ELSE IF st.op = "type_ext"
    THEN [typed EXCEPT !.ext = FTA_SUBAGENCY_CODE]                \* 294, 340
    ELSE typed

\* The browser operations of step `st` that the log keeps.
FormLog(st) ==
    IF st.op = "search" THEN <<"search">>
    ELSE IF st.op = "agree" THEN <<"chkAgree">>
    ELSE IF st.op = "continue" THEN <<"btnIAgree">>
    ELSE <<>>

\* One statement group of views.py:306-366: look the element up, act on it.
\* A lookup of an element the page lacks raises NoSuchElementException, and
\* so does select_by_value for a value that is no option of the select.
FormStep ==
    /\ pc = "form"
    /\ LET st == FormSteps[step]
       IN  IF st.el \in world.missing
              \/ (st.op = "select" /\ agency_prefix \notin PortalOptions)
           THEN /\ Raise("NoSuchElementException")
                /\ UNCHANGED <<step, typed, log, current_url, page>>
           ELSE /\ typed' = FormEffect(st, loadDay, today, agency_prefix)
                /\ log' = log \o FormLog(st)
                /\ current_url' = IF st.op = "search" THEN "agreement"
                                  ELSE IF st.op = "continue" THEN "results"
                                  ELSE current_url
                /\ page' = IF st.op = "continue" THEN 1 ELSE page
                /\ IF step = Len(FormSteps)
                   THEN pc' = "download" /\ step' = 0
                   ELSE pc' = "form" /\ step' = step + 1
                /\ UNCHANGED exception
    /\ UNCHANGED <<world, loadDay, today, arg, agency_prefix, session,
                   current_page_index, link_to_next_page, lastCall,
                   downloadAllCalls, downloadedPages, pagerClicks, items,
                   polls, elapsed, paths, response, summary,
                   grant>>

\* The download list after `n` clicks on download links: every click may or
\* may not start a download, and the list is tracked up to MaxItems entries.
StartedDownloads(its, n) ==
    { its \o [j \in 1..k |-> [fileUrl |-> Len(its) + j, state |-> "IN_PROGRESS"]] :
        k \in 0 .. (IF n < MaxItems - Len(its) THEN n ELSE MaxItems - Len(its)) }

\* views.py:373 and 390 (with 375 after the first call)
DownloadAll ==
    /\ pc = "download"
    /\ LET r == download_all_linked_files(world.slots, world.clickFail)
       IN  /\ lastCall' = [made |-> TRUE, page |-> page,
                           attempted |-> r.attempted,
                           swallowed |-> r.swallowed,
                           clicks |-> [c \in Categories |->
                                          Clicked(r.clicks[c])]]
           /\ items' \in StartedDownloads(items, TotalClicks(r.clicks))
           /\ IF r.raised
              THEN /\ Raise("Exception")
                   /\ UNCHANGED current_page_index
              ELSE /\ pc' = "pager"
                   /\ current_page_index' =
                          IF downloadAllCalls = 0 THEN 1 ELSE current_page_index
                   /\ UNCHANGED exception
    /\ downloadAllCalls' = downloadAllCalls + 1
    /\ downloadedPages' = Append(downloadedPages, page)
    /\ log' = Append(log, "download_all")
    /\ UNCHANGED <<world, loadDay, today, arg, step, agency_prefix, session,
                   current_url, typed, page, link_to_next_page, pagerClicks,
                   polls, elapsed, paths, response, summary,
                   grant>>

\* views.py:377 and 392, then the test of the while at 379
GetNextPagerLink ==
    /\ pc = "pager"
    /\ LET r == get_next_pager_link(world, page, current_page_index)
       IN  /\ link_to_next_page' = r.link
           /\ IF r.raised
              THEN Raise(r.exc)
              ELSE /\ pc' = IF r.link # 0 THEN "follow" ELSE "wait"
                   /\ UNCHANGED exception
    /\ UNCHANGED <<world, loadDay, today, arg, step, agency_prefix, session,
                   current_url, typed, page, current_page_index, lastCall,
                   downloadAllCalls, downloadedPages, pagerClicks, log, items,
                   polls, elapsed, paths, response, summary,
                   grant>>

\* views.py:381-385: the click loads the page the link is labelled with
FollowPager ==
    /\ pc = "follow"
    /\ page' = link_to_next_page
    /\ pagerClicks' = pagerClicks + 1
    /\ current_page_index' = current_page_index + 1
    /\ log' = Append(log, "next")
    /\ pc' = "download"
    /\ UNCHANGED <<world, loadDay, today, arg, step, agency_prefix, session,
                   current_url, typed, link_to_next_page, lastCall,
                   downloadAllCalls, downloadedPages, items, polls, elapsed,
                   paths, response, exception, summary,
                   grant>>

\* A download of the browser ends, well or badly.
BrowserProgress ==
    /\ pc = "wait"
    /\ \E i \in 1..Len(items), st \in {"COMPLETE", "INTERRUPTED"} :
          /\ items[i].state = "IN_PROGRESS"
          /\ items' = [items EXCEPT ![i].state = st]
    /\ UNCHANGED <<world, loadDay, today, arg, pc, step, agency_prefix,
                   session, current_url, typed, page, current_page_index,
                   link_to_next_page, lastCall, downloadAllCalls,
                   downloadedPages, pagerClicks, log, polls, elapsed, paths,
                   response, exception, summary,
                   grant>>

\* views.py:396: one turn of WebDriverWait.until around
\* list_completed_chrome_downloads (99-105)
Poll ==
    /\ pc = "wait"
    /\ LET value == list_completed_chrome_downloads(items)
           u == until(value, elapsed)
       IN  /\ elapsed' = u.elapsed
           /\ IF u.outcome = "return"
              THEN /\ paths' = value
                   /\ pc' = "return"
                   /\ UNCHANGED exception
              ELSE IF u.outcome = "TimeoutException"
              THEN /\ Raise("TimeoutException")
                   /\ UNCHANGED paths
              ELSE UNCHANGED <<pc, paths, exception>>
    /\ polls' = polls + 1
    /\ current_url' = "chrome://downloads/"
    /\ log' = IF polls = 0 THEN Append(log, "wait") ELSE log
    /\ UNCHANGED <<world, loadDay, today, arg, step, agency_prefix, session,
                   typed, page, current_page_index, link_to_next_page,
                   lastCall, downloadAllCalls, downloadedPages, pagerClicks,
                   items, response, summary,
                   grant>>

\* views.py:398-402
Return ==
    /\ pc = "return"
    /\ IF quits_session(paths)
       THEN session' = "closed" /\ log' = Append(log, "quit")
       ELSE UNCHANGED <<session, log>>
    /\ response' = "Your download has completed."
    /\ pc' = "done"
    /\ UNCHANGED <<world, loadDay, today, arg, step, agency_prefix,
                   current_url, typed, page, current_page_index,
                   link_to_next_page, lastCall, downloadAllCalls,
                   downloadedPages, pagerClicks, items, polls, elapsed, paths,
                   exception, summary,
                   grant>>

\* views.py:511-520, a request to the summary view with request.POST['agency']
\* holding the characters of `arg`
ShowAgencyLevelSummary ==
    /\ pc = "idle"
    /\ arg.type = "str"
    /\ summary' = show_agency_level_summary(world, arg.val)
    /\ pc' = "summarised"
    /\ UNCHANGED <<world, loadDay, today, arg, step, agency_prefix, session,
                   current_url, typed, page, current_page_index,
                   link_to_next_page, lastCall, downloadAllCalls,
                   downloadedPages, pagerClicks, log, items, polls, elapsed,
                   paths, response, exception, grant>>

\* models.py:47, the validators of Grant.cfda run on the field's value
ValidateCfdaNumber ==
    /\ grant.made
    /\ ~grant.cleaned
    /\ grant' = [grant EXCEPT !.cleaned = TRUE,
                              !.error = validate_cfda_number(grant.cfda).exc]
    /\ UNCHANGED <<world, loadDay, today, arg, pc, step, agency_prefix,
                   session, current_url, typed, page, current_page_index,
                   link_to_next_page, lastCall, downloadAllCalls,
                   downloadedPages, pagerClicks, log, items, polls, elapsed,
                   paths, response, exception, summary>>

Next ==
    \/ Request
    \/ FormStep
    \/ DownloadAll
    \/ GetNextPagerLink
    \/ FollowPager
    \/ BrowserProgress
    \/ Poll
    \/ Return
    \/ ShowAgencyLevelSummary

Spec == Init /\ [][Next]_vars

(* ------------- download_all_linked_files on one result page ------------ *)
\* The state in which line 373 is reached, for the scenario `sc`.
AtResultsPage(sc) ==
    /\ world = sc.world
    /\ loadDay = FirstDay
    /\ today = sc.today
    /\ arg = sc.arg
    /\ pc = "download"
    /\ step = 0
    /\ agency_prefix = normalize_agency_prefix(sc.arg)
    /\ session = "open"
    /\ current_url = "results"
    /\ typed = [from   |-> calculate_start_date(FROM_DATE_DIFFERENCE, FirstDay),
                to     |-> format_date_for_fac_fields(sc.today - 1),
                prefix |-> normalize_agency_prefix(sc.arg),
                ext    |-> FTA_SUBAGENCY_CODE]
    /\ page = 1
    /\ current_page_index = 0
    /\ link_to_next_page = 0
    /\ lastCall = NoCall
    /\ downloadAllCalls = 0
    /\ downloadedPages = <<>>
    /\ pagerClicks = 0
    /\ log = <<"Chrome", "get", "search", "chkAgree", "btnIAgree">>
    /\ items = <<>>
    /\ polls = 0
    /\ elapsed = 0
    /\ paths = PyNone
    /\ response = ""
    /\ exception = NoException
    /\ summary = NoSummary
    /\ grant = NoGrant

\* Under Spec, line 373 is reached in exactly the state AtResultsPage names.
FirstResultsPageState ==
    (pc = "download" /\ downloadAllCalls = 0)
        => AtResultsPage(Scenario(world, arg, today))

FailPoints == {0, 1, 3, max_number_of_search_results}
SlotScenarios ==
    { Scenario([BaseWorld EXCEPT !.slots = [Form |-> f, Audit |-> g],
                                 !.clickFail = [Form |-> ff, Audit |-> gf]],
               ArgNone, FirstDay) :
        f \in SlotSets, g \in SlotSets, ff \in FailPoints, gf \in FailPoints }

InitSlots == \E sc \in SlotScenarios : AtResultsPage(sc)
NextSlots == DownloadAll
\* download_all_linked_files applied to one result page, for every pair of
\* slot sets of SlotSets and every pair of failing clicks of FailPoints.
SpecSlots == InitSlots /\ [][NextSlots]_vars

(* ------------------- validate_cfda_number on one Grant ----------------- *)
InitCfda ==
    /\ ViewsIdle(Scenario(BaseWorld, ArgNone, FirstDay))
    /\ \E n \in CfdaNumbers :
          grant = [made |-> TRUE, cfda |-> n, cleaned |-> FALSE,
                   error |-> NoException]
NextCfda == ValidateCfdaNumber
\* validate_cfda_number applied to every integer of CfdaNumbers.
SpecCfda == InitCfda /\ [][NextCfda]_vars

(* ============================== claims ================================= *)
Ended == pc \in {"done", "failed"}
ClickedSlots(c) == {s \in Slots : ClicksIn(lastCall.clicks[c], s) > 0}

\* C1 (as claimed): once the browser session has been opened, it is closed
\* before download_files_from_fac ends, on the success path and on every
\* failure path.
C1_SessionClosedOnEveryExit ==
    (Ended /\ session # "none") => session = "closed"

\* C2 (as claimed): when no click raises, a call of
\* download_one_set_of_result_files makes exactly one click on the link of
\* every slot the page has and none for a slot it lacks, without an error,
\* in each of the two categories.
C2_OneClickPerExistingSlot ==
    (lastCall.made /\ world.clickFail = NeverFails) =>
        \A c \in Categories :
            /\ lastCall.swallowed[c] = NoException
            /\ \A s \in Slots :
                  ClicksIn(lastCall.clicks[c], s) =
                      IF s \in world.slots[c] THEN 1 ELSE 0

\* C10: whatever the SF-SAC call does (links missing, slot 0 missing, a
\* click that raises), download_all_linked_files goes on to the PDF call, and
\* the PDF links clicked are a function of the PDF slots of the page (and of
\* the PDF click that raises, if one does) alone: with slot 0 present, the
\* existing PDF slots below the failing iteration; with slot 0 missing, none.
ExpectedAuditClicks(present, failAt) ==
    IF 0 \in present THEN {s \in present : s < failAt} ELSE {}
C10_AuditCategoryIndependent ==
    lastCall.made =>
        /\ lastCall.attempted = <<"SF-SAC", "PDF">>
        /\ ClickedSlots("Audit") =
               ExpectedAuditClicks(world.slots.Audit, world.clickFail.Audit)
C10_Witness ==
    /\ lastCall.made
    /\ lastCall.swallowed.Form = "UnboundLocalError"
    /\ world.slots.Form # {}
    /\ ClickedSlots("Audit") = Prefix(5)

\* C3: with result pages 1..K, page N linking to N + 1 exactly when N < K,
\* the paging loop never shows a page beyond K, never blocks, and is left
\* after download_all_linked_files ran once on each of the pages 1..K in that
\* order, with K - 1 clicks on a next-page link and page K showing.
LoopLeft ==
    \/ pc \in {"wait", "return", "done"}
    \/ pc = "failed" /\ exception = "TimeoutException"
C3_PagerVisitsEachPageOnce ==
    /\ \A n \in 1..world.K :
          ((n + 1) \in PagerLinks(world, n)) <=> (n < world.K)
    /\ page <= world.K
    /\ downloadAllCalls <= world.K
    /\ pc \in {"download", "pager", "follow"}
          => ENABLED (DownloadAll \/ GetNextPagerLink \/ FollowPager)
    /\ LoopLeft =>
          /\ downloadedPages = [n \in 1..world.K |-> n]
          /\ downloadAllCalls = world.K
          /\ pagerClicks = world.K - 1
          /\ page = world.K
C3_Witness ==
    /\ pc = "wait"
    /\ world.K >= 3
    /\ downloadedPages = [n \in 1..world.K |-> n]

\* C4 (as claimed): a poll at which every item of the download list is
\* COMPLETE is the poll at which the wait returns, with the file URLs of all
\* items; every poll is one of the first 500 and none follows the return.
FileUrls(its) == [i \in 1..Len(its) |-> its[i].fileUrl]
AllComplete(its) == \A i \in 1..Len(its) : its[i].state = "COMPLETE"
C4_ReturnsWhenAllComplete ==
    [][ polls' # polls =>
          /\ pc = "wait"
          /\ polls' = polls + 1
          /\ polls' <= WAIT_TIMEOUT
          /\ IF AllComplete(items)
             THEN /\ pc' = "return"
                  /\ paths' = [none |-> FALSE, list |-> FileUrls(items)]
             ELSE pc' # "return" ]_vars

\* C4 (amended): the same for a poll at which the download list is not empty
\* and every item of it is COMPLETE; a poll that finds the list empty does
\* not end the wait.
C4_ReturnsWhenNonEmptyAllComplete ==
    [][ polls' # polls =>
          /\ pc = "wait"
          /\ polls' = polls + 1
          /\ polls' <= WAIT_TIMEOUT
          /\ IF items # <<>> /\ AllComplete(items)
             THEN /\ pc' = "return"
                  /\ paths' = [none |-> FALSE, list |-> FileUrls(items)]
             ELSE pc' # "return" ]_vars
C4_Witness ==
    /\ pc = "return"
    /\ polls = 3
    /\ Len(items) = MaxItems
    /\ paths.list = FileUrls(items)

\* C5: when all 500 polls find the downloads incomplete, the request ends
\* with TimeoutException and no response; the success response is only ever
\* returned with the URLs of a non-empty, fully completed download list.
C5_TimeoutSurfacesAsFailure ==
    /\ (polls = WAIT_TIMEOUT \div POLL_FREQUENCY /\ pc \notin {"return", "done"})
          => /\ pc = "failed"
             /\ exception = "TimeoutException"
    /\ pc = "failed" => response = ""
    /\ response # "" =>
          /\ pc = "done"
          /\ items # <<>>
          /\ AllComplete(items)
          /\ paths = [none |-> FALSE, list |-> FileUrls(items)]
C5_Witness ==
    /\ pc = "failed"
    /\ exception = "TimeoutException"
    /\ polls = WAIT_TIMEOUT \div POLL_FREQUENCY
    /\ \E i \in 1..Len(items) : items[i].state # "COMPLETE"
    /\ response = ""

\* C6 (as claimed): for an agency prefix that does not match the
\* 2-character numeric pattern, no browser session is opened, no search is
\* submitted and the dataset is not read.
C6_InvalidPrefixStopsEverything ==
    (arg.type = "str" /\ ~MatchesAgencyPattern(arg.val)) =>
        /\ session = "none"
        /\ \A i \in 1..Len(log) : log[i] # "search"
        /\ summary.reads = 0

\* C7 (as claimed): for a valid agency prefix p, the summary holds
\* cognizant_sum = the number of rows whose COGAGENCY is p and findings = the
\* number of those rows whose CYFINDINGS is 'Y'.
RowsOf(table, p) == {i \in 1..Len(table) : table[i].COGAGENCY = p}
FlaggedRowsOf(table, p) ==
    {i \in RowsOf(table, p) : table[i].CYFINDINGS = "Y"}
C7_HighlightsCountRows ==
    (summary.called /\ MatchesAgencyPattern(summary.agency)) =>
        /\ summary.rendered
        /\ summary.results =
              [cognizant_sum |-> Cardinality(RowsOf(world.table, summary.agency)),
               findings |-> Cardinality(FlaggedRowsOf(world.table, summary.agency))]

\* C8 (as claimed): the date typed into the "from" field is the day of the
\* run minus 90 days, the date typed into the "to" field the day of the run
\* minus 1 day.
C8_DatesFollowTheRunDay ==
    /\ typed.from # <<>> =>
          typed.from = format_date_for_fac_fields(today - FROM_DATE_DIFFERENCE)
    /\ typed.to # <<>> => typed.to = format_date_for_fac_fields(today - 1)

\* C9: the browser operations happen in the order session setup, form
\* filled and search clicked once, acknowledgement checkbox, continue button,
\* then per page the downloads followed by the click to the next page, then
\* the completion wait, then quit: the log is always a prefix of that
\* sequence, and the search click comes with the whole form filled in.
RECURSIVE PagingLog(_)
PagingLog(k) ==
    IF k <= 1 THEN <<"download_all">>
    ELSE PagingLog(k - 1) \o <<"next", "download_all">>
ExpectedLog(k) ==
    <<"Chrome", "get", "search", "chkAgree", "btnIAgree">>
    \o PagingLog(k) \o <<"wait", "quit">>
IsPrefix(a, b) == Len(a) <= Len(b) /\ \A i \in 1..Len(a) : a[i] = b[i]
C9_PhasesInOrder ==
    /\ IsPrefix(log, ExpectedLog(world.K))
    /\ Len(log) >= 3 =>
          /\ typed.from # <<>>
          /\ typed.to # <<>>
          /\ typed.prefix # <<>>
          /\ typed.ext # <<>>
    /\ pc = "wait" => Len(log) >= Len(ExpectedLog(world.K)) - 2
C9_Witness ==
    /\ pc = "done"
    /\ world.K >= 2
    /\ log = ExpectedLog(world.K)

\* C11: get_next_pager_link never raises; it returns the link labelled
\* page_index + 1 when the page has a pager row holding that link, and False
\* (0) when the page has no pager row or the row has no such link, and a
\* False ends the paging loop normally (the wait comes next).
C11_PagerLinkNeverRaises ==
    [][ pc = "pager" =>
          /\ pc' # "failed"
          /\ exception' = exception
          /\ link_to_next_page' =
                IF HasPagerRow(world)
                   /\ (current_page_index + 1) \in (1..world.K) \ {page}
                THEN current_page_index + 1
                ELSE 0
          /\ pc' = IF link_to_next_page' = 0 THEN "wait" ELSE "follow" ]_vars
C11_Witness ==
    /\ pc = "wait"
    /\ polls = 0
    /\ world.K = 1
    /\ ~HasPagerRow(world)
    /\ downloadAllCalls = 1
    /\ link_to_next_page = 0
    /\ exception = NoException

\* C12 (as claimed): validate_cfda_number raises ValidationError exactly for
\* the integers, negative ones included, that do not consist of five digits,
\* and raises nothing for every five-digit number.
HasFiveDigits(n) ==
    \/ 10000 <= n /\ n <= 99999
    \/ (0 - 99999) <= n /\ n <= (0 - 10000)
C12_FiveDigitsIffAccepted ==
    (grant.made /\ grant.cleaned) =>
        ((grant.error = NoException) <=> HasFiveDigits(grant.cfda))

\* C13: when the browser's download list is empty at every poll, the
\* completion wait never succeeds: list_completed_chrome_downloads yields the
\* empty list, the wait takes it for not-yet-done and polls again, so the
\* request stays in the wait until the 500-unit budget is spent and then ends
\* with TimeoutException, with no response returned and the session open.
C13_EmptyListNeverCompletes ==
    /\ (items = <<>> /\ pc = "wait") =>
          /\ list_completed_chrome_downloads(items)
                = [none |-> FALSE, list |-> <<>>]
          /\ until(list_completed_chrome_downloads(items), elapsed).outcome
                # "return"
          /\ polls = elapsed \div POLL_FREQUENCY
          /\ polls < WAIT_TIMEOUT \div POLL_FREQUENCY
          /\ ENABLED Poll
    /\ (items = <<>> /\ polls > 0) =>
          /\ pc \in {"wait", "failed"}
          /\ paths = PyNone
          /\ response = ""
          /\ session = "open"
    /\ (items = <<>> /\ polls > 0 /\ pc = "failed") =>
          /\ exception = "TimeoutException"
          /\ polls = WAIT_TIMEOUT \div POLL_FREQUENCY
C13_Witness ==
    /\ items = <<>>
    /\ pc = "failed"
    /\ exception = "TimeoutException"
    /\ polls = WAIT_TIMEOUT \div POLL_FREQUENCY
    /\ paths = PyNone
    /\ session = "open"
    /\ response = ""

====
